---- MODULE Spec2Model ----
(***************************************************************************)
(* A model of SimPEG/Mesh/TensorMesh.py: BaseTensorMesh construction, the  *)
(* per-axis coordinate vectors, the memoised grids, isInside,              *)
(* getInterpolationMat and the fast inner product.                         *)
(*                                                                         *)
(* Numbers.  Widths and coordinates are exact: a length x is held as the   *)
(* integer x * Scale, where Scale is chosen so that every half width and   *)
(* every mean of cell centres that the code computes is an integer.        *)
(* Interpolation weights are exact rationals <<num, den>>.  Floating point *)
(* rounding is not modelled.                                               *)
(***************************************************************************)
EXTENDS Integers, Sequences, FiniteSets, TLC

\* ------------------------------------------------------------------ bounds
\* Largest number of cells on one axis of a mesh (scalar count or array length).
MaxCells == 2
\* Largest number of query points in one isInside / getInterpolationMat call.
MaxPts == 2
\* Largest number of cells per axis of the uniform meshes.
UniformCells == 3

\* ------------------------------------------------------------ arithmetic
RECURSIVE Gcd(_, _)
Gcd(a, b) == IF b = 0 THEN a ELSE Gcd(b, a % b)

Abs(a) == IF a < 0 THEN 0 - a ELSE a

RECURSIVE LcmUpTo(_)
LcmUpTo(n) == IF n <= 1 THEN 1 ELSE (LcmUpTo(n - 1) * n) \div Gcd(LcmUpTo(n - 1), n)

\* One unit of length.  Even multiples of every count up to MaxCells, so that
\* 1/n, h/2 and the mean of up to MaxCells cell centres are integers.
Scale == 2 * LcmUpTo(MaxCells)

\* A sequence given by a rule, computed once and held as a tuple.
Array(f) == f \o <<>>

RECURSIVE Sum(_)
Sum(s) == IF s = <<>> THEN 0 ELSE Head(s) + Sum(Tail(s))

RECURSIVE Prod(_)
Prod(s) == IF s = <<>> THEN 1 ELSE Head(s) * Prod(Tail(s))

\* numpy cumsum
cumsum(s) == Array([k \in 1..Len(s) |-> Sum(SubSeq(s, 1, k))])

SeqMin(s) == CHOOSE a \in {s[k] : k \in 1..Len(s)} : \A k \in 1..Len(s) : a <= s[k]
SeqMax(s) == CHOOSE a \in {s[k] : k \in 1..Len(s)} : \A k \in 1..Len(s) : a >= s[k]

\* Python's None and a present value, for attributes that may be absent.
None == <<>>
Some(x) == <<x>>

\* ---------------------------------------------------- construction inputs
\* One entry of h_in.  t = "count": a Python scalar n; "array": a 1-D
\* numpy array of widths w; "list": a Python list handed to meshTensor, of
\* segments <<start, num, factor>>; "array2d": a numpy array that is not
\* 1-D; "other": any other object (a tuple, a string).
CountSpec(n) == [t |-> "count", n |-> n, w |-> <<>>, segs |-> <<>>]
ArraySpec(w) == [t |-> "array", n |-> 0, w |-> w, segs |-> <<>>]
ListSpec(segs) == [t |-> "list", n |-> 0, w |-> <<>>, segs |-> segs]
Array2dSpec == [t |-> "array2d", n |-> 0, w |-> <<>>, segs |-> <<>>]
OtherSpec == [t |-> "other", n |-> 0, w |-> <<>>, segs |-> <<>>]

\* One entry of x0_in: a number n (in units of length) or a string s.
NumX0(n) == [t |-> "num", n |-> n, s |-> ""]
StrX0(s) == [t |-> "str", n |-> 0, s |-> s]

\* Utils.meshTensor: expands padding segments to widths.  Segment
\* <<start, num, factor>> gives start * |factor|^k for k = 1..num, reversed
\* when factor < 0; factor 1 gives num equal widths.
RECURSIVE Pow(_, _)
Pow(b, e) == IF e = 0 THEN 1 ELSE b * Pow(b, e - 1)

Reverse(s) == Array([k \in 1..Len(s) |-> s[Len(s) + 1 - k]])

padSegment(seg) ==
    LET pad == Array([k \in 1..seg[2] |-> seg[1] * Pow(Abs(seg[3]), k)])
    IN  IF seg[3] < 0 THEN Reverse(pad) ELSE pad

RECURSIVE meshTensor(_)
meshTensor(segs) ==
    IF segs = <<>> THEN <<>> ELSE padSegment(Head(segs)) \o meshTensor(Tail(segs))

\* Lines 26-33 of __init__ for one axis: the widths (scaled) of the axis, or
\* the assertion that fails.
\* _unitDimensions = [1, 1, 1]
unitDimensions == <<1, 1, 1>>

axisWidths(i, h_i) ==
    IF h_i.t = "count"
    THEN [ok |-> TRUE, err |-> "",
          w |-> Array([k \in 1..h_i.n |-> (unitDimensions[i] * Scale) \div h_i.n])]
    ELSE IF h_i.t = "list"
    THEN [ok |-> TRUE, err |-> "",
          w |-> Array([k \in 1..Len(meshTensor(h_i.segs)) |-> meshTensor(h_i.segs)[k] * Scale])]
    ELSE IF h_i.t = "array"
    THEN [ok |-> TRUE, err |-> "", w |-> Array([k \in 1..Len(h_i.w) |-> h_i.w[k] * Scale])]
    ELSE IF h_i.t = "array2d"
    THEN [ok |-> FALSE, err |-> "h[i] must be a 1D numpy array.", w |-> <<>>]
    ELSE [ok |-> FALSE, err |-> "h[i] is not a numpy array.", w |-> <<>>]

\* axisOrigin with the centring factor 0.5 left out.
axisOrigin_noHalf(x_i, h_i) ==
    IF x_i.t = "num" THEN [ok |-> TRUE, x |-> x_i.n * Scale]
    ELSE IF x_i.s = "0" THEN [ok |-> TRUE, x |-> 0]
    ELSE IF x_i.s = "C" THEN [ok |-> TRUE, x |-> 0 - Sum(h_i)]
    ELSE IF x_i.s = "N" THEN [ok |-> TRUE, x |-> 0 - Sum(h_i)]
    ELSE [ok |-> FALSE, x |-> 0]

\* axisOrigin that takes an unknown code for '0' instead of raising.
axisOrigin_lenient(x_i, h_i) ==
    IF x_i.t = "num" THEN [ok |-> TRUE, x |-> x_i.n * Scale]
    ELSE IF x_i.s = "C" THEN [ok |-> TRUE, x |-> (0 - Sum(h_i)) \div 2]
    ELSE IF x_i.s = "N" THEN [ok |-> TRUE, x |-> 0 - Sum(h_i)]
    ELSE [ok |-> TRUE, x |-> 0]

\* Lines 38-49 of __init__ for one axis: the origin of the axis.
axisOrigin(x_i, h_i) ==
    IF x_i.t = "num" THEN [ok |-> TRUE, x |-> x_i.n * Scale]
    ELSE IF x_i.s = "0" THEN [ok |-> TRUE, x |-> 0]
    ELSE IF x_i.s = "C" THEN [ok |-> TRUE, x |-> (0 - Sum(h_i)) \div 2]
    ELSE IF x_i.s = "N" THEN [ok |-> TRUE, x |-> 0 - Sum(h_i)]
    ELSE [ok |-> FALSE, x |-> 0]

\* BaseTensorMesh.__init__(h_in, x0_in).  h_in = [isList, axes]; x0_in is
\* None or Some(sequence of entries).  Returns [ok, err, h, x0].
Failed(msg) == [ok |-> FALSE, err |-> msg, h |-> <<>>, x0 |-> <<>>]

BaseTensorMesh_init(hIn, x0In) ==
    IF ~hIn.isList THEN Failed("h_in must be a list")
    ELSE IF Len(hIn.axes) \notin {1, 2, 3}
    THEN Failed("h_in must be of dimension 1, 2, or 3")
    ELSE
    LET d == Len(hIn.axes)
        ax == Array([i \in 1..d |-> axisWidths(i, hIn.axes[i])])
    IN  IF \E i \in 1..d : ~ax[i].ok
        THEN Failed(ax[CHOOSE i \in 1..d : ~ax[i].ok /\ \A j \in 1..(i - 1) : ax[j].ok].err)
        ELSE
        LET hh == Array([i \in 1..d |-> ax[i].w])
        IN  IF x0In = None
            THEN [ok |-> TRUE, err |-> "", h |-> hh, x0 |-> Array([i \in 1..d |-> 0])]
            ELSE IF Len(x0In[1]) # d
            THEN Failed("Dimension mismatch. x0 != len(h)")
            ELSE
            LET og == Array([i \in 1..d |-> axisOrigin(x0In[1][i], hh[i])])
            IN  IF \E i \in 1..d : ~og[i].ok
                THEN Failed("x0[i] must be a scalar or '0' to be zero, 'C' to center, or 'N' to be negative.")
                ELSE [ok |-> TRUE, err |-> "", h |-> hh, x0 |-> Array([i \in 1..d |-> og[i].x])]

\* ------------------------------------------------------ coordinate vectors
\* A mesh is the pair of fields [h, x0]; dim is BaseRectangularMesh.dim.
dim(m) == Len(m.h)

\* np.r_[0., h.cumsum()] + x0
nodeVector(h_i, x0_i) ==
    LET cs == cumsum(h_i)
    IN  Array([k \in 1..(Len(h_i) + 1) |-> (IF k = 1 THEN 0 ELSE cs[k - 1]) + x0_i])

\* np.r_[0, h[:-1].cumsum()] + h*0.5 + x0
ccVector(h_i, x0_i) ==
    LET cs == cumsum(SubSeq(h_i, 1, Len(h_i) - 1))
    IN  Array([k \in 1..Len(h_i) |-> (IF k = 1 THEN 0 ELSE cs[k - 1]) + (h_i[k] \div 2) + x0_i])

vectorNx(m) == Some(nodeVector(m.h[1], m.x0[1]))
vectorNy(m) == IF dim(m) < 2 THEN None ELSE Some(nodeVector(m.h[2], m.x0[2]))
vectorNz(m) == IF dim(m) < 3 THEN None ELSE Some(nodeVector(m.h[3], m.x0[3]))
vectorCCx(m) == Some(ccVector(m.h[1], m.x0[1]))
vectorCCy(m) == IF dim(m) < 2 THEN None ELSE Some(ccVector(m.h[2], m.x0[2]))
vectorCCz(m) == IF dim(m) < 3 THEN None ELSE Some(ccVector(m.h[3], m.x0[3]))

\* ----------------------------------------------------------- getTensor
LocTypes == {"CC", "N", "Fx", "Fy", "Fz", "Ex", "Ey", "Ez"}

\* The list ten of getTensor before the None entries are dropped.
tensorTable(m, locType) ==
    IF locType = "Fx" THEN <<vectorNx(m), vectorCCy(m), vectorCCz(m)>>
    ELSE IF locType = "Fy" THEN <<vectorCCx(m), vectorNy(m), vectorCCz(m)>>
    ELSE IF locType = "Fz" THEN <<vectorCCx(m), vectorCCy(m), vectorNz(m)>>
    ELSE IF locType = "Ex" THEN <<vectorCCx(m), vectorNy(m), vectorNz(m)>>
    ELSE IF locType = "Ey" THEN <<vectorNx(m), vectorCCy(m), vectorNz(m)>>
    ELSE IF locType = "Ez" THEN <<vectorNx(m), vectorNy(m), vectorCCz(m)>>
    ELSE IF locType = "CC" THEN <<vectorCCx(m), vectorCCy(m), vectorCCz(m)>>
    ELSE <<vectorNx(m), vectorNy(m), vectorNz(m)>>

\* [t for t in ten if t is not None]
RECURSIVE dropNone(_)
dropNone(ten) ==
    IF ten = <<>> THEN <<>>
    ELSE IF Head(ten) = None THEN dropNone(Tail(ten))
    ELSE <<Head(ten)[1]>> \o dropNone(Tail(ten))

getTensor(m, locType) == dropNone(tensorTable(m, locType))

\* -------------------------------------------- counts (BaseRectangularMesh)
vnC(m) == Array([i \in 1..dim(m) |-> Len(m.h[i])])
nC(m) == Prod(vnC(m))
nN(m) == Prod(Array([i \in 1..dim(m) |-> Len(m.h[i]) + 1]))
\* faces normal to axis i: nodes along i, cell centres along the others
vnF(m) == Array([i \in 1..dim(m) |->
             Prod(Array([j \in 1..dim(m) |-> IF j = i THEN Len(m.h[j]) + 1 ELSE Len(m.h[j])]))])
\* edges along axis i: cell centres along i, nodes along the others
vnE(m) == Array([i \in 1..dim(m) |->
             Prod(Array([j \in 1..dim(m) |-> IF j = i THEN Len(m.h[j]) ELSE Len(m.h[j]) + 1]))])
nF(m) == Sum(vnF(m))
nE(m) == Sum(vnE(m))
\* nFx, nFy, nFz, nEx, nEy, nEz: None when the mesh has no such axis
nFdir(m, i) == IF dim(m) < i THEN None ELSE Some(vnF(m)[i])
nEdir(m, i) == IF dim(m) < i THEN None ELSE Some(vnE(m)[i])

\* ------------------------------------------------ Utils.ndgrid, mkvc, outer
\* Index (1-based) along axis a of the flattened position p (1-based) of a
\* tensor-product array with per-axis lengths ns, axis 1 varying fastest.
axisIndex(ns, a, p) == (((p - 1) \div Prod(SubSeq(ns, 1, a - 1))) % ns[a]) + 1

lengths(vs) == Array([a \in 1..Len(vs) |-> Len(vs[a])])

\* Utils.ndgrid(vectors): the vector itself in 1-D, else one row per point
\* of the cartesian product, axis 1 fastest.
ndgrid(vs) ==
    LET ns == lengths(vs)
    IN  IF Len(vs) = 1 THEN vs[1]
        ELSE Array([p \in 1..Prod(ns) |-> Array([a \in 1..Len(vs) |-> vs[a][axisIndex(ns, a, p)]])])

\* np.outer(a, b) flattened by Utils.mkvc (column-major): a varies fastest.
mkvcOuter(a, b) ==
    Array([p \in 1..(Len(a) * Len(b)) |-> a[((p - 1) % Len(a)) + 1] * b[((p - 1) \div Len(a)) + 1]])

ones(n) == Array([k \in 1..n |-> 1])

\* ------------------------------------------------ vol, area, edge (values)
\* the outer products with their factors exchanged
volValue_transposed(m) ==
    IF dim(m) = 1 THEN m.h[1]
    ELSE IF dim(m) = 2 THEN mkvcOuter(m.h[2], m.h[1])
    ELSE mkvcOuter(m.h[3], mkvcOuter(m.h[2], m.h[1]))

volValue(m) ==
    IF dim(m) = 1 THEN m.h[1]
    ELSE IF dim(m) = 2 THEN mkvcOuter(m.h[1], m.h[2])
    ELSE mkvcOuter(mkvcOuter(m.h[1], m.h[2]), m.h[3])

areaValue(m) ==
    LET vh == m.h
        n == vnC(m)
    IN  IF dim(m) = 1 THEN ones(n[1] + 1)
        ELSE IF dim(m) = 2
        THEN mkvcOuter(ones(n[1] + 1), vh[2]) \o mkvcOuter(vh[1], ones(n[2] + 1))
        ELSE mkvcOuter(ones(n[1] + 1), mkvcOuter(vh[2], vh[3]))
             \o mkvcOuter(vh[1], mkvcOuter(ones(n[2] + 1), vh[3]))
             \o mkvcOuter(vh[1], mkvcOuter(vh[2], ones(n[3] + 1)))

edgeValue(m) ==
    LET vh == m.h
        n == vnC(m)
    IN  IF dim(m) = 1 THEN vh[1]
        ELSE IF dim(m) = 2
        THEN mkvcOuter(vh[1], ones(n[2] + 1)) \o mkvcOuter(ones(n[1] + 1), vh[2])
        ELSE mkvcOuter(vh[1], mkvcOuter(ones(n[2] + 1), ones(n[3] + 1)))
             \o mkvcOuter(ones(n[1] + 1), mkvcOuter(vh[2], ones(n[3] + 1)))
             \o mkvcOuter(ones(n[1] + 1), mkvcOuter(ones(n[2] + 1), vh[3]))

\* ------------------------------------------------------ _getTensorGrid
\* _getTensorGrid without the test for an existing entry: builds on every call.
getTensorGrid_rebuild(m, cache, key) ==
    LET g == ndgrid(getTensor(m, key))
    IN  [cache |-> [cache EXCEPT ![key] = Some(g)], val |-> g, ran |-> TRUE]

\* cache maps each location type to None or Some(grid).  Returns the cache
\* after the call, the array returned, and whether ndgrid was run.
getTensorGrid(m, cache, key) ==
    IF cache[key] = None
    THEN LET g == ndgrid(getTensor(m, key))
         IN  [cache |-> [cache EXCEPT ![key] = Some(g)], val |-> g, ran |-> TRUE]
    ELSE [cache |-> cache, val |-> cache[key][1], ran |-> FALSE]

\* ----------------------------------------------------------- isInside
meshType == "TENSOR"

\* inside & (pts[:,i] >= tensor.min()) & (pts[:,i] <= tensor.max()) over
\* enumerate(tensors)
cylTensors(ten, locType) ==
    IF locType = "N" /\ meshType = "CYL" THEN [ten EXCEPT ![1] = <<0>> \o ten[1]] ELSE ten

\* the bounds test with the bounds themselves excluded
withinExtent_open(tensors, pts) ==
    Array([k \in 1..Len(pts) |->
           \A i \in 1..Len(tensors) :
               pts[k][i] > SeqMin(tensors[i]) /\ pts[k][i] < SeqMax(tensors[i])])

withinExtent(tensors, pts) ==
    Array([k \in 1..Len(pts) |->
           \A i \in 1..Len(tensors) :
               pts[k][i] >= SeqMin(tensors[i]) /\ pts[k][i] <= SeqMax(tensors[i])])

isInside(m, pts, locType) == withinExtent(cylTensors(getTensor(m, locType), locType), pts)

\* ------------------------------------------------------------ rationals
\* <<num, den>> in lowest terms, den > 0.
Rat(n, d) ==
    LET g == Gcd(Abs(n), Abs(d))
        sg == IF d < 0 THEN 0 - 1 ELSE 1
    IN  <<(sg * n) \div g, (sg * d) \div g>>

ZeroRat == <<0, 1>>
OneRat == <<1, 1>>
\* (the first cases are shortcuts for whole numbers and for zero)
RMul(a, b) ==
    IF a[2] = 1 /\ b[2] = 1 THEN <<a[1] * b[1], 1>>
    ELSE Rat(a[1] * b[1], a[2] * b[2])
RAdd(a, b) ==
    IF a[2] = 1 /\ b[2] = 1 THEN <<a[1] + b[1], 1>>
    ELSE Rat(a[1] * b[2] + b[1] * a[2], a[2] * b[2])

RECURSIVE RProd(_)
RProd(s) == IF s = <<>> THEN OneRat ELSE RMul(Head(s), RProd(Tail(s)))

\* ------------------------------------------- sparse matrices (as dense rows)
\* A matrix is [nrows, ncols, rows], rows[r][c] a rational.
spzeros(n1, n2) ==
    [nrows |-> n1, ncols |-> n2, rows |-> Array([r \in 1..n1 |-> Array([c \in 1..n2 |-> ZeroRat])])]

\* sp.hstack of two blocks with the same number of rows
hstack2(A, B) ==
    [nrows |-> A.nrows, ncols |-> A.ncols + B.ncols,
     rows |-> Array([r \in 1..A.nrows |-> A.rows[r] \o B.rows[r]])]

RECURSIVE hstack(_)
hstack(components) ==
    IF Len(components) = 1 THEN components[1]
    ELSE hstack2(components[1], hstack(Tail(components)))

\* [comp for comp in components if comp.shape[1] > 0]
RECURSIVE nonEmptyBlocks(_)
nonEmptyBlocks(components) ==
    IF components = <<>> THEN <<>>
    ELSE IF Head(components).ncols > 0
    THEN <<Head(components)>> \o nonEmptyBlocks(Tail(components))
    ELSE nonEmptyBlocks(Tail(components))

\* ---------------------------------------------------------- Utils.interpmat
\* Linear interpolation weights of point coordinate p on the increasing
\* vector t: the two neighbours of p share the weight; a point at or beyond
\* an end of t takes the end value.
interpRow1D(t, p) ==
    Array([k \in 1..Len(t) |->
        IF p <= t[1] THEN (IF k = 1 THEN OneRat ELSE ZeroRat)
        ELSE IF p >= t[Len(t)] THEN (IF k = Len(t) THEN OneRat ELSE ZeroRat)
        ELSE IF k < Len(t) /\ t[k] <= p /\ p < t[k + 1]
        THEN Rat(t[k + 1] - p, t[k + 1] - t[k])
        ELSE IF k > 1 /\ t[k - 1] <= p /\ p < t[k]
        THEN Rat(p - t[k - 1], t[k] - t[k - 1])
        ELSE ZeroRat])

\* Multilinear interpolation matrix: one row per point, one column per point
\* of the tensor grid (axis 1 fastest).
interpmat(pts, tensors) ==
    LET ns == lengths(tensors)
    IN  [nrows |-> Len(pts), ncols |-> Prod(ns),
         rows |-> Array([r \in 1..Len(pts) |->
                    LET w == Array([a \in 1..Len(tensors) |-> interpRow1D(tensors[a], pts[r][a])])
                    IN  Array([c \in 1..Prod(ns) |->
                           RProd(Array([a \in 1..Len(tensors) |-> w[a][axisIndex(ns, a, c)]]))])])]

\* ------------------------------------------------- getInterpolationMat
\* line 236/238: self.isInside(loc)  (locType defaults to 'N')
insideMesh(m, pts) == isInside(m, pts, "N")

\* line 236: np.all(self.isInside(loc))
all(flags) == \A k \in 1..Len(flags) : flags[k]
\* accepts the query as soon as one point is inside
allInside_any(m, pts) == \E k \in 1..Len(pts) : insideMesh(m, pts)[k]
allInside(m, pts) == all(insideMesh(m, pts))

\* line 238: np.logical_not(self.isInside(loc))
logical_not(flags) == Array([k \in 1..Len(flags) |-> ~flags[k]])

\* line 239: np.array([v.mean() for v in self.getTensor('CC')])
means(vs) == Array([a \in 1..Len(vs) |-> Sum(vs[a]) \div Len(vs[a])])
centroid(m) == means(getTensor(m, "CC"))

\* line 239: loc[indZeros, :] = the centroid
moveRows(pts, indZeros, ctr) == Array([k \in 1..Len(pts) |-> IF indZeros[k] THEN ctr ELSE pts[k]])
substituted(m, pts) == moveRows(pts, logical_not(insideMesh(m, pts)), centroid(m))

\* every component placed in the first block
componentIndex_first(locType) == 1

\* line 242: {'x':0, 'y':1, 'z':2}[locType[1]], here 1-based
componentIndex(locType) ==
    IF locType \in {"Fx", "Ex"} THEN 1 ELSE IF locType \in {"Fy", "Ey"} THEN 2 ELSE 3

\* line 244: self.vnF if 'F' in locType else self.vnE
nF_nE(m, locType) == IF locType \in {"Fx", "Fy", "Fz"} THEN vnF(m) ELSE vnE(m)

\* line 245: [Utils.spzeros(loc.shape[0], n) for n in nF_nE]
zeroBlocks(npts, ns) == Array([i \in 1..Len(ns) |-> spzeros(npts, ns[i])])

\* the operator with the rows of the moved points left as assembled
zeroRows_skipped(Q, indZeros) == Q

\* line 255-256: Q[indZeros, :] = 0
zeroRows(Q, indZeros) ==
    [Q EXCEPT !.rows = Array([r \in 1..Q.nrows |->
                          IF indZeros[r] THEN Array([c \in 1..Q.ncols |-> ZeroRat]) ELSE Q.rows[r]])]

NoMatrix == [nrows |-> 0, ncols |-> 0, rows |-> <<>>]
Raised(e) == [kind |-> "error", err |-> e, Q |-> NoMatrix]
Returned(Q) == [kind |-> "value", err |-> "", Q |-> Q]

\* lines 241-253: the matrix for the (possibly moved) points loc
interpolationQ(m, loc, locType) ==
    IF locType \in {"Fx", "Fy", "Fz", "Ex", "Ey", "Ez"}
    THEN IF ~(dim(m) >= componentIndex(locType) - 1)
         THEN Raised("mesh is not high enough dimension.")
         ELSE IF componentIndex(locType) > dim(m) THEN Raised("IndexError")
         ELSE Returned(hstack(nonEmptyBlocks(
                  [zeroBlocks(Len(loc), nF_nE(m, locType))
                       EXCEPT ![componentIndex(locType)] = interpmat(loc, getTensor(m, locType))])))
    ELSE Returned(interpmat(loc, getTensor(m, locType)))

\* lines 255-258
zeroedOutside(r, indZeros) == IF r.kind = "error" THEN r ELSE Returned(zeroRows(r.Q, indZeros))

getInterpolationMat(m, pts, locType, zerosOutside) ==
    IF ~zerosOutside
    THEN IF ~allInside(m, pts) THEN Raised("Points outside of mesh")
         ELSE interpolationQ(m, pts, locType)
    ELSE zeroedOutside(interpolationQ(m, substituted(m, pts), locType),
                       logical_not(insideMesh(m, pts)))

\* --------------------------------------------------- averaging operators
\* numpy 1/x on an array entry: 1/0 is inf, held as <<1, 0>>
RInv(a) == Rat(a[2], a[1])

RECURSIVE RSum(_)
RSum(s) == IF s = <<>> THEN ZeroRat ELSE RAdd(Head(s), RSum(Tail(s)))

\* Per-axis lengths of the block of faces normal to (AvType "F") or edges
\* along (AvType "E") axis a.
dofLengths(m, AvType, a) ==
    Array([j \in 1..dim(m) |->
        IF (j = a) = (AvType = "F") THEN Len(m.h[j]) + 1 ELSE Len(m.h[j])])

vnDof(m, AvType) == IF AvType = "F" THEN vnF(m) ELSE vnE(m)
nDof(m, AvType) == Sum(vnDof(m, AvType))

\* The block (axis) of the degree of freedom q, and its position in the block.
dofAxis(m, AvType, q) ==
    LET vn == vnDof(m, AvType)
    IN  CHOOSE a \in 1..dim(m) : Sum(SubSeq(vn, 1, a - 1)) < q /\ q <= Sum(SubSeq(vn, 1, a))

dofPos(m, AvType, q) == q - Sum(SubSeq(vnDof(m, AvType), 1, dofAxis(m, AvType, q) - 1))

\* The cells (flattened indices) that touch degree of freedom q: a face is
\* shared by the cells on its two sides along its normal, an edge by the
\* cells around it.  nc and ns are the per-axis lengths of the cells and of
\* the block, pos the position in the block.
touchingAt(nc, ns, pos) ==
    {c \in 1..Prod(nc) :
        \A j \in 1..Len(nc) :
            IF ns[j] = nc[j] THEN axisIndex(nc, j, c) = axisIndex(ns, j, pos)
            ELSE axisIndex(nc, j, c) \in {axisIndex(ns, j, pos) - 1, axisIndex(ns, j, pos)}}

touching(m, AvType, q) ==
    touchingAt(vnC(m), dofLengths(m, AvType, dofAxis(m, AvType, q)), dofPos(m, AvType, q))

\* Weight of one cell in the average along the averaged axes: 1/2 per axis.
avWeight(m, AvType) == IF AvType = "F" THEN Rat(1, 2) ELSE Rat(1, Pow(2, dim(m) - 1))

weightRow(n, cells, w) == Array([c \in 1..n |-> IF c \in cells THEN w ELSE ZeroRat])

\* getattr(self, 'ave'+AvType+'2CC').T as a matrix nDof x nC
aveT(m, AvType) ==
    [nrows |-> nDof(m, AvType), ncols |-> nC(m),
     rows |-> Array([q \in 1..nDof(m, AvType) |->
                weightRow(nC(m), touching(m, AvType, q),
                          RMul(Rat(1, dim(m)), avWeight(m, AvType)))])]

\* the cells of component a only, in the nC*dim columns
shifted(cells, n, a) == {c + (a - 1) * n : c \in cells}

\* getattr(self, 'ave'+AvType+'2CCV').T as a matrix nDof x (nC*dim)
aveVT(m, AvType) ==
    [nrows |-> nDof(m, AvType), ncols |-> nC(m) * dim(m),
     rows |-> Array([q \in 1..nDof(m, AvType) |->
                weightRow(nC(m) * dim(m),
                          shifted(touching(m, AvType, q), nC(m), dofAxis(m, AvType, q)),
                          avWeight(m, AvType))])]

\* matrix * vector, matrix scaled by a number, by a diagonal on either side
matVec(A, x) == Array([r \in 1..A.nrows |-> RSum(Array([c \in 1..A.ncols |-> RMul(A.rows[r][c], x[c])]))])
scaleMat(k, A) ==
    [A EXCEPT !.rows = Array([r \in 1..A.nrows |-> Array([c \in 1..A.ncols |-> RMul(k, A.rows[r][c])])])]
mulDiagRight(A, dg) ==
    [A EXCEPT !.rows = Array([r \in 1..A.nrows |-> Array([c \in 1..A.ncols |-> RMul(A.rows[r][c], dg[c])])])]
mulDiagLeft(dg, A) ==
    [A EXCEPT !.rows = Array([r \in 1..A.nrows |-> Array([c \in 1..A.ncols |-> RMul(dg[r], A.rows[r][c])])])]

\* ----------------------------------------------------- _fastInnerProduct
\* A property is None, a Python scalar or a numpy array; a holds its values.
NoneProp == [t |-> "None", a |-> <<>>]
ScalarProp(x) == [t |-> "scalar", a |-> <<x>>]
ArrayProp(xs) == [t |-> "array", a |-> xs]

\* Utils.isScalar: a Python number, or a numpy array of one element (line 26
\* relies on the latter).
isScalar(p) == p.t = "scalar" \/ (p.t = "array" /\ Len(p.a) = 1)

asRats(xs) == Array([c \in 1..Len(xs) |-> Rat(xs[c], 1)])
vol(m) == asRats(volValue(m))

\* sp.kron(sp.identity(self.dim), Utils.sdiag(self.vol)) as its diagonal
kron(d, vv) == Array([cc \in 1..(Len(vv) * d) |-> vv[((cc - 1) % Len(vv)) + 1]])
kronVol(m) == kron(dim(m), vol(m))

\* elementwise product, number * vector, elementwise 1/x
times(a, b) == Array([c \in 1..Len(a) |-> RMul(a[c], b[c])])
scaleVec(k, x) == Array([q \in 1..Len(x) |-> RMul(k, x[q])])
invVec(x) == Array([q \in 1..Len(x) |-> RInv(x[q])])

NoOperator == [kind |-> "none", err |-> "", val |-> <<>>, usedVol |-> FALSE]
Operator(d) == [kind |-> "value", err |-> "", val |-> d, usedVol |-> TRUE]

\* line 304-305: prop = np.ones(self.nC) when prop is None
defaulted(m, prop) ==
    IF prop.t = "None" THEN ArrayProp(Array([c \in 1..nC(m) |-> OneRat])) ELSE prop

\* line 307-308: prop = 1./prop
inverted(p, invProp) == IF invProp THEN [p EXCEPT !.a = invVec(p.a)] ELSE p

\* the property left as it is, a scalar not spread over the cells
expanded_asIs(m, p) == p.a

\* line 310-311: prop = prop*np.ones(self.nC)
expanded(m, p) == IF isScalar(p) THEN Array([c \in 1..nC(m) |-> p.a[1]]) ELSE p.a

\* the isotropic branch without the factor self.dim
innerDiag_noDim(m, AvType, p) ==
    IF Len(p) = nC(m)
    THEN Some(matVec(aveT(m, AvType), times(vol(m), p)))
    ELSE IF Len(p) = nC(m) * dim(m)
    THEN Some(matVec(aveVT(m, AvType), times(kronVol(m), p)))
    ELSE None

\* lines 313-322: the diagonal of M, or None
innerDiag(m, AvType, p) ==
    IF Len(p) = nC(m)
    THEN Some(scaleVec(Rat(dim(m), 1), matVec(aveT(m, AvType), times(vol(m), p))))
    ELSE IF Len(p) = nC(m) * dim(m)
    THEN Some(matVec(aveVT(m, AvType), times(kronVol(m), p)))
    ELSE None

\* M returned whatever invMat is
finished_asIs(M, invMat) ==
    IF M = None THEN NoOperator ELSE Operator(M[1])

\* lines 324-327: Utils.sdInv(M) or M
finished(M, invMat) ==
    IF M = None THEN NoOperator
    ELSE Operator(IF invMat THEN invVec(M[1]) ELSE M[1])

\* Returns [kind, err, val, usedVol]: kind "value" with the diagonal of the
\* sdiag matrix M, "none" for return None, "error" for an exception; usedVol
\* tells whether self.vol was read.  1./prop on a Python scalar 0 raises.
fastInnerProduct(m, AvType, prop, invProp, invMat) ==
    IF invProp /\ prop.t = "scalar" /\ prop.a[1][1] = 0
    THEN [kind |-> "error", err |-> "ZeroDivisionError", val |-> <<>>, usedVol |-> FALSE]
    ELSE finished(innerDiag(m, AvType, expanded(m, inverted(defaulted(m, prop), invProp))),
                  invMat)

\* -------------------------------------------------- _fastInnerProductDeriv
\* Returns [kind, val, usedVol]; v is None or Some(vector over the degrees
\* of freedom).
NoDeriv == [kind |-> "none", val |-> NoMatrix, usedVol |-> FALSE]
Deriv(A) == [kind |-> "value", val |-> A, usedVol |-> TRUE]

\* Utils.sdiag(v) * A when v is given
withV(v, A) == IF v = None THEN A ELSE mulDiagLeft(v[1], A)

\* A * ones: the column of row sums
rowSums(A) ==
    [nrows |-> A.nrows, ncols |-> 1, rows |-> Array([r \in 1..A.nrows |-> <<RSum(A.rows[r])>>])]

\* the derivative with the factor self.dim left out of the nC branch
fastInnerProductDeriv_noDim(m, AvType, prop, v) ==
    IF prop.t = "None" THEN NoDeriv
    ELSE IF isScalar(prop)
    THEN Deriv(withV(v, rowSums(mulDiagRight(scaleMat(Rat(dim(m), 1), aveT(m, AvType)), vol(m)))))
    ELSE IF Len(prop.a) = nC(m)
    THEN Deriv(withV(v, mulDiagRight(aveT(m, AvType), vol(m))))
    ELSE IF Len(prop.a) = nC(m) * dim(m)
    THEN Deriv(withV(v, mulDiagRight(aveVT(m, AvType), kronVol(m))))
    ELSE NoDeriv

\* lines 347-377
fastInnerProductDeriv(m, AvType, prop, v) ==
    IF prop.t = "None" THEN NoDeriv
    ELSE IF isScalar(prop)
    THEN Deriv(withV(v, rowSums(mulDiagRight(scaleMat(Rat(dim(m), 1), aveT(m, AvType)), vol(m)))))
    ELSE IF Len(prop.a) = nC(m)
    THEN Deriv(withV(v, mulDiagRight(scaleMat(Rat(dim(m), 1), aveT(m, AvType)), vol(m))))
    ELSE IF Len(prop.a) = nC(m) * dim(m)
    THEN Deriv(withV(v, mulDiagRight(aveVT(m, AvType), kronVol(m))))
    ELSE NoDeriv

\* The threads that read the cached properties of one mesh.
Threads == {"a", "b"}
Idle == [pc |-> "idle", key |-> "", computed |-> None, got |-> None]

\* ------------------------------------------------------------------ state
VARIABLES
    h_in, x0_in,     \* the caller's arguments of the constructor
    query,           \* the caller's arguments [loc, locType, zerosOutside]
    ip,              \* the caller's arguments [AvType, prop, invProp, invMat, v]
    status,          \* "new" before __init__, then "ok" or "failed"
    h, x0,           \* self._h and self.x0 (empty when there is no mesh)
    cacheGrid,       \* self._gridCC .. self._gridEz: None or Some(grid)
    cacheVol, cacheArea, cacheEdge,   \* self._vol, self._area, self._edge
    ndgridCalls,     \* history: how often ndgrid was run for each type
    ret,             \* the outcome [op, kind, val, hit] of the last call; hit
                     \* tells that a grid request was served from the cache
    thread           \* per calling thread [pc, key, computed, got]: where it
                     \* stands in a property read of a cached array

inputs == <<h_in, x0_in, query, ip, thread>>
fields == <<status, h, x0>>
caches == <<cacheGrid, cacheVol, cacheArea, cacheEdge, ndgridCalls>>
vars == <<h_in, x0_in, query, ip, status, h, x0, cacheGrid, cacheVol, cacheArea,
          cacheEdge, ndgridCalls, ret, thread>>

Mesh == [h |-> h, x0 |-> x0]

Value(op, val) == [op |-> op, kind |-> "value", val |-> val, hit |-> FALSE]
Error(op, e) == [op |-> op, kind |-> "error", val |-> e, hit |-> FALSE]

\* ------------------------------------------------------------ construction
Construct ==
    /\ status = "new"
    /\ LET r == BaseTensorMesh_init(h_in, x0_in)
       IN  /\ status' = IF r.ok THEN "ok" ELSE "failed"
           /\ h' = r.h
           /\ x0' = r.x0
           /\ ret' = IF r.ok THEN Value("__init__", "") ELSE Error("__init__", r.err)
    /\ UNCHANGED <<inputs, caches>>

\* -------------------------------------------------- coordinate vector reads
ReadVector(name, val) ==
    /\ status = "ok"
    /\ ret' = Value(name, val)
    /\ UNCHANGED <<inputs, fields, caches>>

Get_vectorNx == ReadVector("vectorNx", vectorNx(Mesh))
Get_vectorNy == ReadVector("vectorNy", vectorNy(Mesh))
Get_vectorNz == ReadVector("vectorNz", vectorNz(Mesh))
Get_vectorCCx == ReadVector("vectorCCx", vectorCCx(Mesh))
Get_vectorCCy == ReadVector("vectorCCy", vectorCCy(Mesh))
Get_vectorCCz == ReadVector("vectorCCz", vectorCCz(Mesh))

\* ------------------------------------------------------------ grid requests
\* A grid property: returns None when absent, else goes through
\* _getTensorGrid(self, key).
GridRequest(name, key, absent) ==
    /\ status = "ok"
    /\ IF absent
       THEN /\ ret' = Value(name, None)
            /\ UNCHANGED <<cacheGrid, ndgridCalls>>
       ELSE LET r == getTensorGrid(Mesh, cacheGrid, key)
            IN  /\ cacheGrid' = r.cache
                /\ ndgridCalls' = IF r.ran THEN [ndgridCalls EXCEPT ![key] = @ + 1]
                                  ELSE ndgridCalls
                /\ ret' = [Value(name, Some(r.val)) EXCEPT !.hit = ~r.ran]
    /\ UNCHANGED <<inputs, fields, cacheVol, cacheArea, cacheEdge>>

Get_gridCC == GridRequest("gridCC", "CC", FALSE)
Get_gridN == GridRequest("gridN", "N", FALSE)
Get_gridFx == GridRequest("gridFx", "Fx", nFdir(Mesh, 1) = Some(0))
Get_gridFy == GridRequest("gridFy", "Fy", nFdir(Mesh, 2) = Some(0) \/ dim(Mesh) < 2)
Get_gridFz == GridRequest("gridFz", "Fz", nFdir(Mesh, 3) = Some(0) \/ dim(Mesh) < 3)
Get_gridEx == GridRequest("gridEx", "Ex", nEdir(Mesh, 1) = Some(0))
Get_gridEy == GridRequest("gridEy", "Ey", nEdir(Mesh, 2) = Some(0) \/ dim(Mesh) < 2)
Get_gridEz == GridRequest("gridEz", "Ez", nEdir(Mesh, 3) = Some(0) \/ dim(Mesh) < 3)

\* ------------------------------------------------------- vol, area, edge
\* vol computed in place in the width array of the first axis.
Get_vol_inplace ==
    /\ status = "ok"
    /\ cacheVol' = IF cacheVol = None THEN Some(volValue(Mesh)) ELSE cacheVol
    /\ h' = IF cacheVol = None /\ dim(Mesh) > 1
            THEN [h EXCEPT ![1] = Array([k \in 1..Len(h[1]) |-> volValue(Mesh)[k]])] ELSE h
    /\ ret' = Value("vol", cacheVol'[1])
    /\ UNCHANGED <<inputs, status, x0, cacheGrid, cacheArea, cacheEdge, ndgridCalls>>

Get_vol ==
    /\ status = "ok"
    /\ cacheVol' = IF cacheVol = None THEN Some(volValue(Mesh)) ELSE cacheVol
    /\ ret' = Value("vol", cacheVol'[1])
    /\ UNCHANGED <<inputs, fields, cacheGrid, cacheArea, cacheEdge, ndgridCalls>>

Get_area ==
    /\ status = "ok"
    /\ cacheArea' = IF cacheArea = None THEN Some(areaValue(Mesh)) ELSE cacheArea
    /\ ret' = Value("area", cacheArea'[1])
    /\ UNCHANGED <<inputs, fields, cacheGrid, cacheVol, cacheEdge, ndgridCalls>>

Get_edge ==
    /\ status = "ok"
    /\ cacheEdge' = IF cacheEdge = None THEN Some(edgeValue(Mesh)) ELSE cacheEdge
    /\ ret' = Value("edge", cacheEdge'[1])
    /\ UNCHANGED <<inputs, fields, cacheGrid, cacheVol, cacheArea, ndgridCalls>>

\* --------------------------------------------------- boundary index finders
\* The cache and the ndgrid count after the grids named in keys have been
\* requested one after the other.
RECURSIVE requestGrids(_, _, _, _)
requestGrids(m, cache, calls, keys) ==
    IF keys = <<>> THEN [cache |-> cache, calls |-> calls]
    ELSE LET r == getTensorGrid(m, cache, Head(keys))
         IN  requestGrids(m, r.cache,
                          IF r.ran THEN [calls EXCEPT ![Head(keys)] = @ + 1] ELSE calls,
                          Tail(keys))

\* column a of a grid (the grid itself in 1-D)
gridColumn(g, d, a) == IF d = 1 THEN g ELSE Array([p \in 1..Len(g) |-> g[p][a]])

\* <<indxd, indxu, indyd, indyu, ...>> for the grids gs (one per axis)
boundaryMasks(gs, d, cols) ==
    Array([k \in 1..(2 * d) |->
        LET a == (k + 1) \div 2
            col == gridColumn(gs[a], d, cols[a])
        IN  Array([p \in 1..Len(col) |->
                col[p] = (IF k % 2 = 1 THEN SeqMin(col) ELSE SeqMax(col))])])

Get_faceBoundaryInd ==
    /\ status = "ok"
    /\ LET keys == SubSeq(<<"Fx", "Fy", "Fz">>, 1, dim(Mesh))
           r == requestGrids(Mesh, cacheGrid, ndgridCalls, keys)
       IN  /\ cacheGrid' = r.cache
           /\ ndgridCalls' = r.calls
           /\ ret' = Value("faceBoundaryInd",
                           boundaryMasks(Array([a \in 1..dim(Mesh) |-> r.cache[keys[a]][1]]),
                                         dim(Mesh), Array([a \in 1..dim(Mesh) |-> a])))
    /\ UNCHANGED <<inputs, fields, cacheVol, cacheArea, cacheEdge>>

Get_cellBoundaryInd ==
    /\ status = "ok"
    /\ LET r == requestGrids(Mesh, cacheGrid, ndgridCalls, <<"CC">>)
       IN  /\ cacheGrid' = r.cache
           /\ ndgridCalls' = r.calls
           /\ ret' = Value("cellBoundaryInd",
                           boundaryMasks(Array([a \in 1..dim(Mesh) |-> r.cache["CC"][1]]),
                                         dim(Mesh), Array([a \in 1..dim(Mesh) |-> a])))
    /\ UNCHANGED <<inputs, fields, cacheVol, cacheArea, cacheEdge>>

\* ------------------------------------------- isInside, getInterpolationMat
Call_isInside ==
    /\ status = "ok"
    /\ ret' = Value("isInside", isInside(Mesh, query.loc, query.locType))
    /\ UNCHANGED <<inputs, fields, caches>>

Interpolated(r) ==
    /\ status = "ok"
    /\ ret' = IF r.kind = "error" THEN Error("getInterpolationMat", r.err)
              ELSE Value("getInterpolationMat", r.Q)
    /\ UNCHANGED <<inputs, fields, caches>>

Call_getInterpolationMat ==
    Interpolated(getInterpolationMat(Mesh, query.loc, query.locType, query.zerosOutside))

\* ------------------------------------------------------ fast inner products
\* self.vol is read (and memoised) on the branches that assemble an operator.
Assembled(op, r) ==
    /\ status = "ok"
    /\ cacheVol' = IF r.usedVol /\ cacheVol = None THEN Some(volValue(Mesh)) ELSE cacheVol
    /\ ret' = IF r.kind = "error" THEN Error(op, r.err)
              ELSE IF r.kind = "none" THEN Value(op, None)
              ELSE Value(op, Some(r.val))
    /\ UNCHANGED <<inputs, fields, cacheGrid, cacheArea, cacheEdge, ndgridCalls>>

Call_fastInnerProduct ==
    Assembled("fastInnerProduct", fastInnerProduct(Mesh, ip.AvType, ip.prop, ip.invProp, ip.invMat))

Call_fastInnerProductDeriv ==
    Assembled("fastInnerProductDeriv", fastInnerProductDeriv(Mesh, ip.AvType, ip.prop, ip.v))

\* ------------------------------------------- two threads reading a cache
\* The arrays the mesh m caches: the grids whose property reaches
\* _getTensorGrid (lines 106-150), and vol, area, edge.
Quantities(m) ==
    {"CC", "N", "vol", "area", "edge"}
    \cup {k \in {"Fx", "Fy", "Fz"} : \E i \in 1..dim(m) : k = <<"Fx", "Fy", "Fz">>[i] /\ vnF(m)[i] # 0}
    \cup {k \in {"Ex", "Ey", "Ez"} : \E i \in 1..dim(m) : k = <<"Ex", "Ey", "Ez">>[i] /\ vnE(m)[i] # 0}

\* getattr(self, '_grid' + key, None), getattr(self, '_vol', None), ...
Cached(key) ==
    IF key \in LocTypes THEN cacheGrid[key]
    ELSE IF key = "vol" THEN cacheVol
    ELSE IF key = "area" THEN cacheArea
    ELSE cacheEdge

\* The right-hand side of the assignment to the cache field.
derivedValue(m, key) ==
    IF key \in LocTypes THEN ndgrid(getTensor(m, key))
    ELSE IF key = "vol" THEN volValue(m)
    ELSE IF key = "area" THEN areaValue(m)
    ELSE edgeValue(m)

\* A thread starts to read one of the cached properties.
T_Call(t) ==
    /\ status = "ok"
    /\ thread[t].pc = "idle"
    /\ \E key \in Quantities(Mesh) : thread' = [thread EXCEPT ![t].pc = "test", ![t].key = key]
    /\ UNCHANGED <<h_in, x0_in, query, ip, fields, caches, ret>>

\* the test without its None branch: the field is returned as it is
T_Test_noBuild(t) ==
    /\ thread[t].pc = "test"
    /\ thread' = [thread EXCEPT ![t].pc = "fetch"]
    /\ UNCHANGED <<h_in, x0_in, query, ip, fields, caches, ret>>

\* lines 8, 472, 490, 512: if getattr(self, field, None) is None
T_Test(t) ==
    /\ thread[t].pc = "test"
    /\ thread' = [thread EXCEPT ![t].pc = IF Cached(thread[t].key) = None THEN "build" ELSE "fetch"]
    /\ UNCHANGED <<h_in, x0_in, query, ip, fields, caches, ret>>

\* lines 9, 473-484: the whole array is computed, held by the thread only
T_Build(t) ==
    /\ thread[t].pc = "build"
    /\ thread' = [thread EXCEPT ![t].pc = "store",
                                ![t].computed = Some(derivedValue(Mesh, thread[t].key))]
    /\ ndgridCalls' = IF thread[t].key \in LocTypes
                      THEN [ndgridCalls EXCEPT ![thread[t].key] = @ + 1]
                      ELSE ndgridCalls
    /\ UNCHANGED <<h_in, x0_in, query, ip, fields, cacheGrid, cacheVol, cacheArea, cacheEdge, ret>>

\* lines 9, 476-484: setattr / self._vol = ..., one reference store
T_Store(t) ==
    /\ thread[t].pc = "store"
    /\ cacheGrid' = IF thread[t].key \in LocTypes
                    THEN [cacheGrid EXCEPT ![thread[t].key] = thread[t].computed]
                    ELSE cacheGrid
    /\ cacheVol' = IF thread[t].key = "vol" THEN thread[t].computed ELSE cacheVol
    /\ cacheArea' = IF thread[t].key = "area" THEN thread[t].computed ELSE cacheArea
    /\ cacheEdge' = IF thread[t].key = "edge" THEN thread[t].computed ELSE cacheEdge
    /\ thread' = [thread EXCEPT ![t].pc = "fetch", ![t].computed = None]
    /\ UNCHANGED <<h_in, x0_in, query, ip, fields, ndgridCalls, ret>>

\* lines 10, 485: return getattr(self, field)
T_Return(t) ==
    /\ thread[t].pc = "fetch"
    /\ thread' = [thread EXCEPT ![t].pc = "done", ![t].got = Cached(thread[t].key)]
    /\ UNCHANGED <<h_in, x0_in, query, ip, fields, caches, ret>>

\* ----------------------------------------------------------------- inputs
SeqsUpTo(S, n) == UNION {[1..k -> S] : k \in 1..n}

HIn(axes) == [isList |-> TRUE, axes |-> axes]

\* Width arrays handed to the constructor: every array of up to MaxCells
\* entries; the code receives non-positive entries like any other.
WidthVals == {0 - 1, 0, 1, 2}
AxisSpecsWide ==
    {CountSpec(n) : n \in 1..MaxCells}
    \cup {ArraySpec(w) : w \in SeqsUpTo(WidthVals, MaxCells)}
    \cup {ListSpec(<<<<1, 2, 1>>>>), ListSpec(<<<<1, 1, 0 - 2>>, <<1, 1, 1>>>>),
          Array2dSpec, OtherSpec}
AxisSpecsSmall ==
    {CountSpec(2), ArraySpec(<<1, 2>>), ArraySpec(<<2, 0 - 1>>),
     ListSpec(<<<<1, 2, 2>>>>), Array2dSpec, OtherSpec}

HInWide ==
    {HIn(<<a>>) : a \in AxisSpecsWide}
    \cup {HIn(s) : s \in [1..2 -> AxisSpecsSmall] \cup [1..3 -> AxisSpecsSmall]}
    \cup {HIn(<<>>), HIn(Array([i \in 1..4 |-> CountSpec(2)])),
          [isList |-> FALSE, axes |-> <<CountSpec(2)>>]}
HInNarrow ==
    {HIn(<<ArraySpec(<<1, 2>>)>>), HIn(<<CountSpec(2), ArraySpec(<<2>>)>>),
     HIn(<<ArraySpec(<<1>>), ListSpec(<<<<1, 2, 1>>>>), CountSpec(1)>>)}

X0Entries == {NumX0(0 - 1), NumX0(2), StrX0("0"), StrX0("C"), StrX0("N"), StrX0("X")}
X0Wide == {None} \cup {Some(s) : s \in SeqsUpTo(X0Entries, 3)}
X0Same(d) == {None} \cup {Some(Array([i \in 1..d |-> e])) : e \in {StrX0("C"), StrX0("N"), NumX0(2)}}

ConstructInputs ==
    {<<hi, xi>> : hi \in HInNarrow, xi \in X0Wide}
    \cup UNION {{<<hi, xi>> : xi \in X0Same(Len(hi.axes))} : hi \in HInWide}

\* The meshes used to exercise the queries: 1-D, 2-D and 3-D, each origin
\* code, each kind of width specification.
MeshInputs ==
    {<<HIn(<<ArraySpec(<<1, 2>>)>>), None>>,
     <<HIn(<<CountSpec(2)>>), Some(<<StrX0("C")>>)>>,
     <<HIn(<<ArraySpec(<<2>>)>>), Some(<<NumX0(1)>>)>>,
     <<HIn(<<ArraySpec(<<1, 1>>)>>), Some(<<StrX0("N")>>)>>,
     <<HIn(<<ArraySpec(<<1, 2>>), ArraySpec(<<1>>)>>), None>>,
     <<HIn(<<CountSpec(2), ArraySpec(<<2, 1>>)>>), Some(<<StrX0("C"), StrX0("0")>>)>>,
     <<HIn(<<ArraySpec(<<1>>), ListSpec(<<<<1, 2, 1>>>>)>>), Some(<<NumX0(1), StrX0("N")>>)>>,
     <<HIn(<<ArraySpec(<<1>>), ArraySpec(<<1, 2>>), ArraySpec(<<1>>)>>), None>>,
     <<HIn(<<CountSpec(2), ArraySpec(<<1>>), ArraySpec(<<2>>)>>),
       Some(<<StrX0("C"), StrX0("0"), StrX0("N")>>)>>}

NoQuery == [loc |-> <<>>, locType |-> "N", zerosOutside |-> FALSE]
NoIp == [AvType |-> "F", prop |-> NoneProp, invProp |-> FALSE, invMat |-> FALSE, v |-> None]

\* Query points: coordinates on, between and off the nodes of the meshes above.
PtCoords(d) == IF d < 3 THEN {0, Scale \div 4, Scale} ELSE {Scale \div 4, Scale}
Points(d) == [1..d -> PtCoords(d)]
Queries(d) ==
    [loc : SeqsUpTo(Points(d), MaxPts), locType : LocTypes, zerosOutside : BOOLEAN]

\* ------------------------------------------------------------------- specs
InitWith(hi, xi, q, i) ==
    /\ h_in = hi
    /\ x0_in = xi
    /\ query = q
    /\ ip = i
    /\ status = "new"
    /\ h = <<>>
    /\ x0 = <<>>
    /\ cacheGrid = [k \in LocTypes |-> None]
    /\ cacheVol = None
    /\ cacheArea = None
    /\ cacheEdge = None
    /\ ndgridCalls = [k \in LocTypes |-> 0]
    /\ ret = Value("", "")
    /\ thread = [t \in Threads |-> Idle]

\* Construction from every kind of input, and the coordinate vectors.
InitConstruct == \E c \in ConstructInputs : InitWith(c[1], c[2], NoQuery, NoIp)

NextConstruct ==
    \/ Construct
    \/ Get_vectorNx
    \/ Get_vectorNy
    \/ Get_vectorNz
    \/ Get_vectorCCx
    \/ Get_vectorCCy
    \/ Get_vectorCCz

SpecConstruct == InitConstruct /\ [][NextConstruct]_vars

\* The grids and the boundary index finders, on every mesh of MeshInputs.
InitGrid == \E c \in MeshInputs : InitWith(c[1], c[2], NoQuery, NoIp)

NextGrid ==
    \/ Construct
    \/ Get_gridCC
    \/ Get_gridN
    \/ Get_gridFx
    \/ Get_gridFy
    \/ Get_gridFz
    \/ Get_gridEx
    \/ Get_gridEy
    \/ Get_gridEz
    \/ Get_faceBoundaryInd
    \/ Get_cellBoundaryInd

SpecGrid == InitGrid /\ [][NextGrid]_vars

\* isInside and getInterpolationMat, on every mesh and every query.
InitInterp ==
    \E c \in MeshInputs : \E q \in Queries(Len(c[1].axes)) : InitWith(c[1], c[2], q, NoIp)

NextInterp ==
    \/ Construct
    \/ Call_isInside
    \/ Call_getInterpolationMat

SpecInterp == InitInterp /\ [][NextInterp]_vars

\* The fast inner products.  Properties: None, the scalars 0 and 2, arrays of
\* every size from 1 to nC*dim + 1.
ConstArray(x, n) == Array([k \in 1..n |-> Rat(x, 1)])
MixedArray(n) == Array([k \in 1..n |-> Rat(1 + (k % 2), 1)])
Props(m) ==
    {NoneProp, ScalarProp(Rat(0, 1)), ScalarProp(Rat(2, 1))}
    \cup {ArrayProp(ConstArray(2, n)) : n \in 1..(nC(m) * dim(m) + 1)}
    \cup {ArrayProp(MixedArray(n)) : n \in {nC(m), nC(m) * dim(m)}}
IpInputs(m) ==
    UNION {[AvType : {av}, prop : Props(m), invProp : BOOLEAN, invMat : BOOLEAN,
            v : {None, Some(MixedArray(nDof(m, av)))}] : av \in {"F", "E"}}

MeshOf(c) == BaseTensorMesh_init(c[1], c[2])

InitIP ==
    \E c \in MeshInputs : \E i \in IpInputs(MeshOf(c)) : InitWith(c[1], c[2], NoQuery, i)

NextIP ==
    \/ Construct
    \/ Get_vol
    \/ Call_fastInnerProduct
    \/ Call_fastInnerProductDeriv

SpecIP == InitIP /\ [][NextIP]_vars

\* Uniform meshes: d axes of n unit-width cells each, origin at 0; on them
\* the assembly with no property, a scalar and a constant array.
UniformMesh(d, n) == <<HIn(Array([a \in 1..d |-> ArraySpec(Array([k \in 1..n |-> 1]))])), None>>
UniformMeshes == {UniformMesh(d, n) : d \in 1..3, n \in 1..UniformCells}
UniformIps(m) ==
    [AvType : {"F", "E"},
     prop : {NoneProp, ScalarProp(Rat(2, 1)), ArrayProp(ConstArray(1, nC(m)))},
     invProp : BOOLEAN, invMat : BOOLEAN, v : {None}]

InitUniform ==
    \E c \in UniformMeshes : \E i \in UniformIps(MeshOf(c)) : InitWith(c[1], c[2], NoQuery, i)

NextUniform ==
    \/ Construct
    \/ Get_vol
    \/ Call_fastInnerProduct

SpecUniform == InitUniform /\ [][NextUniform]_vars

\* Cell volumes next to the cell-centre grid, on every 1-D and 2-D mesh of
\* widths 1 and 2 and on a 3-D mesh no two cells of which have one volume.
GeomWidths == {ArraySpec(w) : w \in SeqsUpTo({1, 2}, MaxCells)}
GeomMeshes ==
    {<<HIn(<<a>>), None>> : a \in GeomWidths}
    \cup {<<HIn(<<a, b>>), None>> : a \in GeomWidths, b \in GeomWidths}
    \cup {<<HIn(<<ArraySpec(<<1, 2>>), ArraySpec(<<3, 5>>), ArraySpec(<<7, 11>>)>>), None>>}

InitGeom == \E c \in GeomMeshes : InitWith(c[1], c[2], NoQuery, NoIp)

NextGeom ==
    \/ Construct
    \/ Get_vol
    \/ Get_gridCC

SpecGeom == InitGeom /\ [][NextGeom]_vars

\* Two threads, each reading one cached property of the same mesh, their
\* steps interleaved in every order.
ThreadMeshes ==
    {<<HIn(<<ArraySpec(<<1, 2>>)>>), None>>,
     <<HIn(<<CountSpec(2), ArraySpec(<<2, 1>>)>>), Some(<<StrX0("C"), StrX0("0")>>)>>}

InitThreads == \E c \in ThreadMeshes : InitWith(c[1], c[2], NoQuery, NoIp)

NextThreads ==
    \/ Construct
    \/ \E t \in Threads : T_Call(t)
    \/ \E t \in Threads : T_Test(t)
    \/ \E t \in Threads : T_Build(t)
    \/ \E t \in Threads : T_Store(t)
    \/ \E t \in Threads : T_Return(t)

SpecThreads == InitThreads /\ [][NextThreads]_vars

\* Every operation, on a 1-D and a 2-D mesh: a zero-fill query with one
\* point inside and one outside, a reject query that fails, an assembly
\* that succeeds and one that returns None.
AllMesh1 == <<HIn(<<CountSpec(2)>>), Some(<<StrX0("C")>>)>>
AllMesh2 == <<HIn(<<CountSpec(2), ArraySpec(<<2, 1>>)>>), Some(<<StrX0("C"), StrX0("0")>>)>>
ZeroFillQuery(d, t) ==
    [loc |-> <<Array([a \in 1..d |-> Scale \div 4]), Array([a \in 1..d |-> Scale])>>,
     locType |-> t, zerosOutside |-> TRUE]
RejectQuery(d, t) ==
    [loc |-> <<Array([a \in 1..d |-> Scale])>>, locType |-> t, zerosOutside |-> FALSE]
GoodIp == [AvType |-> "F", prop |-> ScalarProp(Rat(2, 1)), invProp |-> FALSE,
           invMat |-> TRUE, v |-> None]
NoneIp(c) ==
    [AvType |-> "E",
     prop |-> ArrayProp(ConstArray(2, nC(MeshOf(c)) * dim(MeshOf(c)) + 1)),
     invProp |-> TRUE, invMat |-> FALSE, v |-> None]
AllInputs ==
    {<<AllMesh1, ZeroFillQuery(1, "Fx"), GoodIp>>,
     <<AllMesh1, RejectQuery(1, "CC"), NoneIp(AllMesh1)>>,
     <<AllMesh2, ZeroFillQuery(2, "Ey"), GoodIp>>,
     <<AllMesh2, RejectQuery(2, "N"), NoneIp(AllMesh2)>>}

Init == \E a \in AllInputs : InitWith(a[1][1], a[1][2], a[2], a[3])

Next ==
    \/ Construct
    \/ Get_vectorNx
    \/ Get_vectorNy
    \/ Get_vectorNz
    \/ Get_vectorCCx
    \/ Get_vectorCCy
    \/ Get_vectorCCz
    \/ Get_gridCC
    \/ Get_gridN
    \/ Get_gridFx
    \/ Get_gridFy
    \/ Get_gridFz
    \/ Get_gridEx
    \/ Get_gridEy
    \/ Get_gridEz
    \/ Get_vol
    \/ Get_area
    \/ Get_edge
    \/ Get_faceBoundaryInd
    \/ Get_cellBoundaryInd
    \/ Call_isInside
    \/ Call_getInterpolationMat
    \/ Call_fastInnerProduct
    \/ Call_fastInnerProductDeriv

Spec == Init /\ [][Next]_vars

\* ================================================================ claims
\* The axis (1-based) a node-vector read is about.
NodeAxis(op) == IF op = "vectorNx" THEN 1 ELSE IF op = "vectorNy" THEN 2 ELSE 3

\* C1: on every axis of a constructed mesh the first node coordinate is the
\* anchored origin: the given number, 0 for '0', -sum(h_i)/2 for 'C',
\* -sum(h_i) for 'N', 0 when x0_in is omitted; so the last node is
\* sum(h_i)/2 for 'C' and 0 for 'N'.
C1_OriginAnchored ==
    (status = "ok" /\ ret.op \in {"vectorNx", "vectorNy", "vectorNz"} /\ ret.val # None) =>
        LET i == NodeAxis(ret.op)
            node == ret.val[1]
            total == Sum(h[i])
        IN  IF x0_in = None THEN node[1] = 0
            ELSE LET e == x0_in[1][i]
                 IN  /\ e.t = "num" => node[1] = e.n * Scale
                     /\ (e.t = "str" /\ e.s = "0") => node[1] = 0
                     /\ (e.t = "str" /\ e.s = "C") =>
                            (2 * node[1] = 0 - total /\ 2 * node[Len(node)] = total)
                     /\ (e.t = "str" /\ e.s = "N") =>
                            (node[1] = 0 - total /\ node[Len(node)] = 0)

\* C1 witness: the y node vector of a mesh centred on its second axis was read.
C1_Witness ==
    /\ status = "ok"
    /\ ret.op = "vectorNy"
    /\ ret.val # None
    /\ x0_in # None
    /\ x0_in[1][2].s = "C"
    /\ ret.val[1][1] < 0
    /\ Len(ret.val[1]) = 3

\* The inputs C2 lists: a number of axes other than 1, 2, 3; an axis that is
\* no 1-D array; x0_in of another length than h_in; an x0_in entry that is
\* neither a number nor '0', 'C', 'N'.
C2_BadInput ==
    \/ Len(h_in.axes) \notin {1, 2, 3}
    \/ \E i \in 1..Len(h_in.axes) : h_in.axes[i].t \in {"array2d", "other"}
    \/ (x0_in # None /\ Len(x0_in[1]) # Len(h_in.axes))
    \/ (x0_in # None /\ \E i \in 1..Len(x0_in[1]) :
            x0_in[1][i].t = "str" /\ x0_in[1][i].s \notin {"0", "C", "N"})

\* C2: construction from any of those inputs fails and leaves no mesh.
C2_ConstructionFails ==
    (status # "new" /\ C2_BadInput) =>
        (status = "failed" /\ ret.kind = "error" /\ h = <<>> /\ x0 = <<>>)

\* C2 witness: a well-formed 2-D h_in with an unknown origin code was rejected.
C2_Witness ==
    /\ status = "failed"
    /\ Len(h_in.axes) = 2
    /\ \A i \in 1..2 : h_in.axes[i].t \in {"count", "array", "list"}
    /\ x0_in # None
    /\ Len(x0_in[1]) = 2
    /\ x0_in[1][2] = StrX0("X")

\* C3 as stated: every mesh that construction returns has d width arrays, d
\* origins, only widths > 0, and so strictly increasing node vectors of
\* length len(h_i) + 1.
C3_WidthsPositive ==
    status = "ok" =>
        /\ Len(h) = Len(h_in.axes)
        /\ Len(x0) = Len(h_in.axes)
        /\ \A i \in 1..Len(h) :
              /\ \A k \in 1..Len(h[i]) : h[i][k] > 0
              /\ Len(nodeVector(h[i], x0[i])) = Len(h[i]) + 1
              /\ \A k \in 1..Len(h[i]) :
                    nodeVector(h[i], x0[i])[k] < nodeVector(h[i], x0[i])[k + 1]

\* C4: once the mesh is constructed, no operation (coordinate vector reads,
\* grid requests, vol, area, edge, boundary index finders, isInside,
\* getInterpolationMat under either policy, fastInnerProduct and its
\* derivative, failing calls included) changes h or x0, and the mesh stays
\* constructed; only the cache fields may change.
C4_Immutable == [][status = "ok" => (h' = h /\ x0' = x0 /\ status' = "ok")]_vars

\* C4 witness: a 2-D mesh after a rejected interpolation query, with the
\* volume, area, edge and two grid caches filled by earlier operations.
C4_Witness ==
    /\ status = "ok"
    /\ Len(h) = 2
    /\ ret.op = "getInterpolationMat"
    /\ ret.kind = "error"
    /\ cacheVol # None
    /\ cacheArea # None
    /\ cacheEdge # None
    /\ cacheGrid["Fx"] # None
    /\ cacheGrid["CC"] # None

\* The selector table of the grids: per location type, node or cell-centre
\* vector on each axis.
SelectorTable ==
    [CC |-> <<"cc", "cc", "cc">>, N |-> <<"node", "node", "node">>,
     Fx |-> <<"node", "cc", "cc">>, Fy |-> <<"cc", "node", "cc">>,
     Fz |-> <<"cc", "cc", "node">>, Ex |-> <<"cc", "node", "node">>,
     Ey |-> <<"node", "cc", "node">>, Ez |-> <<"node", "node", "cc">>]

GridOp ==
    [CC |-> "gridCC", N |-> "gridN", Fx |-> "gridFx", Fy |-> "gridFy", Fz |-> "gridFz",
     Ex |-> "gridEx", Ey |-> "gridEy", Ez |-> "gridEz"]

\* The coordinates the table selects for type T on axis a of the mesh.
SelectedCoords(T, a) ==
    IF SelectorTable[T][a] = "node"
    THEN {nodeVector(h[a], x0[a])[k] : k \in 1..(Len(h[a]) + 1)}
    ELSE {ccVector(h[a], x0[a])[k] : k \in 1..Len(h[a])}

\* g lists every point of the cartesian product of the selected vectors
\* exactly once (in 1-D the grid is the vector itself).
IsProductGrid(g, T) ==
    IF Len(h) = 1
    THEN /\ {g[p] : p \in 1..Len(g)} = SelectedCoords(T, 1)
         /\ Len(g) = Cardinality(SelectedCoords(T, 1))
    ELSE /\ \A p \in 1..Len(g) :
                Len(g[p]) = Len(h) /\ \A a \in 1..Len(h) : g[p][a] \in SelectedCoords(T, a)
         /\ Cardinality({g[p] : p \in 1..Len(g)}) = Len(g)
         /\ Len(g) = Prod(Array([a \in 1..Len(h) |-> Cardinality(SelectedCoords(T, a))]))

\* C5: for each location type T, over any sequence of grid requests: the
\* grid for T is built at most once, and only while no grid for T is
\* cached; a cached entry is never cleared or replaced; a request for T
\* returns the cached array of T and touches no other type's entry; and
\* the cached array is the cartesian product of the vectors the selector
\* table gives for T.
C5_GridBuiltOnce ==
    [][\A T \in LocTypes :
          /\ ndgridCalls'[T] <= 1
          /\ ndgridCalls'[T] # ndgridCalls[T] => (cacheGrid[T] = None /\ cacheGrid'[T] # None)
          /\ cacheGrid[T] # None => cacheGrid'[T] = cacheGrid[T]
          /\ cacheGrid'[T] # None => IsProductGrid(cacheGrid'[T][1], T)
          /\ (ret'.op = GridOp[T] /\ ret'.val # None) =>
                /\ ret'.val = cacheGrid'[T]
                /\ cacheGrid[T] # None => (ret'.hit /\ ret'.val = cacheGrid[T])
                /\ \A U \in LocTypes \ {T} : cacheGrid'[U] = cacheGrid[U]
                /\ \A U \in LocTypes \ {T} : ndgridCalls'[U] = ndgridCalls[U]]_vars

\* C5 witness: on a 3-D mesh a second request for gridFy was answered from
\* the cache while the grid of another type (Ex) is cached too.
C5_Witness ==
    /\ Len(h) = 3
    /\ ret.op = "gridFy"
    /\ ret.hit
    /\ ndgridCalls["Fy"] = 1
    /\ cacheGrid["Fy"] = ret.val
    /\ cacheGrid["Ex"] # None
    /\ cacheGrid["Ex"] # cacheGrid["Fy"]

\* The least and the greatest of a finite set of integers.
Least(S) == CHOOSE x \in S : \A y \in S : x <= y
Greatest(S) == CHOOSE x \in S : \A y \in S : x >= y

\* Point p lies, on every axis, between the least and the greatest
\* coordinate the selector table gives for type T, bounds included.
InExtent(p, T) ==
    \A i \in 1..Len(h) :
        Least(SelectedCoords(T, i)) <= p[i] /\ p[i] <= Greatest(SelectedCoords(T, i))

IsCellCentre(p) == \A i \in 1..Len(h) : p[i] \in SelectedCoords("CC", i)
BeyondNodes(p) == \E i \in 1..Len(h) : p[i] > Greatest(SelectedCoords("N", i))

\* C6: isInside(pts, locType) returns one boolean per point, true exactly
\* when every coordinate of the point lies within [min, max] (inclusive) of
\* the selector vector of locType on that axis; it is true for every
\* cell-centre coordinate of the mesh and false for a point beyond the last
\* node on some axis.
C6_InsideIffInExtent ==
    ret.op = "isInside" =>
        /\ Len(ret.val) = Len(query.loc)
        /\ \A k \in 1..Len(query.loc) :
              /\ ret.val[k] \in BOOLEAN
              /\ ret.val[k] <=> InExtent(query.loc[k], query.locType)
              /\ IsCellCentre(query.loc[k]) => ret.val[k]
              /\ BeyondNodes(query.loc[k]) => ~ret.val[k]

\* C6 witness: a 2-D query of two points on the cell-centre vectors, the
\* first a cell centre that sits on the lower bound of the second axis
\* (inside), the second beyond the last node of the first axis (outside).
C6_Witness ==
    /\ ret.op = "isInside"
    /\ Len(h) = 2
    /\ query.locType = "CC"
    /\ Len(query.loc) = 2
    /\ IsCellCentre(query.loc[1])
    /\ query.loc[1][2] = Least(SelectedCoords("CC", 2))
    /\ BeyondNodes(query.loc[2])
    /\ ret.val = <<TRUE, FALSE>>

OutOfDomain == ret.kind = "error" /\ ret.val = "Points outside of mesh"
RejectQueryDone == ret.op = "getInterpolationMat" /\ ~query.zerosOutside
ZeroFillQueryDone == ret.op = "getInterpolationMat" /\ query.zerosOutside

\* C7 as stated: under the reject policy the query fails with the
\* out-of-domain error exactly when some point lies outside the coordinate
\* extent of the selector vectors of the requested location type.
C7_RejectsByRequestedType ==
    RejectQueryDone =>
        (OutOfDomain <=> \E k \in 1..Len(query.loc) : ~InExtent(query.loc[k], query.locType))

\* C7 amended: under the reject policy the query fails with the
\* out-of-domain error exactly when some point lies outside the extent of
\* the node vectors, whatever location type is requested.
C7_RejectsByNodeExtent ==
    RejectQueryDone =>
        (OutOfDomain <=> \E k \in 1..Len(query.loc) : ~InExtent(query.loc[k], "N"))

\* C7 witness: a reject-policy query on cell centres returned an operator
\* although one of its points lies outside the extent of the cell-centre
\* vectors (inside the node extent).
C7_Witness ==
    /\ RejectQueryDone
    /\ query.locType = "CC"
    /\ ret.kind = "value"
    /\ ret.val.nrows = Len(query.loc)
    /\ \E k \in 1..Len(query.loc) :
          ~InExtent(query.loc[k], "CC") /\ InExtent(query.loc[k], "N")

IsZeroRow(row) == \A c \in 1..Len(row) : row[c] = ZeroRat

\* The row the reject policy produces for the single point p.
RejectRow(p) == getInterpolationMat(Mesh, <<p>>, query.locType, FALSE).Q.rows[1]

\* C8: under the zero-fill policy the query never fails with the
\* out-of-domain error; in the operator returned, the row of every point
\* outside the mesh is entirely zero and the row of every point inside the
\* mesh is the row the reject policy produces for that point.
C8_ZeroFill ==
    ZeroFillQueryDone =>
        /\ ~OutOfDomain
        /\ ret.kind = "value" =>
              \A k \in 1..Len(query.loc) :
                  IF InExtent(query.loc[k], "N")
                  THEN ret.val.rows[k] = RejectRow(query.loc[k])
                  ELSE IsZeroRow(ret.val.rows[k])

\* C8 witness: a zero-fill query of two points on a 2-D mesh, the first
\* outside (zero row), the second inside with a row that is not zero.
C8_Witness ==
    /\ ZeroFillQueryDone
    /\ Len(h) = 2
    /\ ret.kind = "value"
    /\ Len(query.loc) = 2
    /\ ~InExtent(query.loc[1], "N")
    /\ InExtent(query.loc[2], "N")
    /\ IsZeroRow(ret.val.rows[1])
    /\ ~IsZeroRow(ret.val.rows[2])

\* The number of grid points of type T, from the selector table.
DofCount(T) == Prod(Array([a \in 1..Len(h) |-> Cardinality(SelectedCoords(T, a))]))

\* The component types of the family of T that the mesh has, in block order.
Family(T) ==
    IF T \in {"CC", "N"} THEN <<T>>
    ELSE IF T \in {"Fx", "Fy", "Fz"} THEN SubSeq(<<"Fx", "Fy", "Fz">>, 1, Len(h))
    ELSE SubSeq(<<"Ex", "Ey", "Ez">>, 1, Len(h))

FamilyCount(T) == Sum(Array([b \in 1..Len(Family(T)) |-> DofCount(Family(T)[b])]))

\* The place of component type T in its family: x, y, z are 1, 2, 3.
Position(T) == CHOOSE b \in 1..3 : <<"Fx", "Fy", "Fz">>[b] = T \/ <<"Ex", "Ey", "Ez">>[b] = T

\* The number of columns that precede the block of T in its family.
BlockOffset(T) ==
    Sum(Array([b \in 1..Len(Family(T)) |->
        IF b < Position(T) THEN DofCount(Family(T)[b]) ELSE 0]))

\* C9: an operator returned for M points has exactly M rows and as many
\* columns as its family has degrees of freedom (nC for CC, nN for N, nF
\* for Fx/Fy/Fz, nE for Ex/Ey/Ez); for a component type every nonzero
\* entry lies in the column block of that component, the columns of the
\* other components being zero.
C9_ShapeAndBlock ==
    (ret.op = "getInterpolationMat" /\ ret.kind = "value") =>
        /\ ret.val.nrows = Len(query.loc)
        /\ Len(ret.val.rows) = Len(query.loc)
        /\ ret.val.ncols = FamilyCount(query.locType)
        /\ \A k \in 1..Len(query.loc) :
              /\ Len(ret.val.rows[k]) = FamilyCount(query.locType)
              /\ query.locType \notin {"CC", "N"} =>
                    \A c \in 1..Len(ret.val.rows[k]) :
                        ret.val.rows[k][c] # ZeroRat =>
                            /\ c > BlockOffset(query.locType)
                            /\ c <= BlockOffset(query.locType) + DofCount(query.locType)

\* C9 witness: on a 3-D mesh a query on the y edges returned an operator
\* with a nonzero entry; the block of the y edges follows that of the x edges.
C9_Witness ==
    /\ ret.op = "getInterpolationMat"
    /\ ret.kind = "value"
    /\ Len(h) = 3
    /\ query.locType = "Ey"
    /\ Len(query.loc) = 2
    /\ BlockOffset("Ey") > 0
    /\ ret.val.ncols > BlockOffset("Ey") + DofCount("Ey")
    /\ \E c \in 1..ret.val.ncols : ret.val.rows[1][c] # ZeroRat

\* The number of cells and the outcomes of a fastInnerProduct call.
CellCount == Prod(Array([a \in 1..Len(h) |-> Len(h[a])]))
AssemblyDone == ret.op = "fastInnerProduct"
NotApplicable == ret.kind = "value" /\ ret.val = None
OperatorReturned ==
    /\ ret.kind = "value"
    /\ ret.val # None
    /\ Len(ret.val[1]) = (IF ip.AvType = "F" THEN FamilyCount("Fx") ELSE FamilyCount("Ex"))

\* C10 as stated: the call returns no operator, without error, for every
\* array property whose size is neither nC nor nC*d, and an operator for
\* every property that is None, a scalar, or of size nC or nC*d.
C10_AsStated ==
    AssemblyDone =>
        /\ (ip.prop.t = "array" /\ Len(ip.prop.a) \notin {CellCount, CellCount * Len(h)})
               => NotApplicable
        /\ (ip.prop.t \in {"None", "scalar"}
            \/ (ip.prop.t = "array" /\ Len(ip.prop.a) \in {CellCount, CellCount * Len(h)}))
               => OperatorReturned

\* C10 amended: the call returns no operator, without error, for every
\* array property whose size is none of 1, nC and nC*d; it returns an
\* operator for a None property, for an array of size 1, nC or nC*d, and
\* for a scalar, except the scalar 0 under invertProperty, which raises a
\* division by zero.
C10_Applicability ==
    AssemblyDone =>
        /\ (ip.prop.t = "array" /\ Len(ip.prop.a) \notin {1, CellCount, CellCount * Len(h)})
               => NotApplicable
        /\ (ip.prop.t = "None"
            \/ (ip.prop.t = "array" /\ Len(ip.prop.a) \in {1, CellCount, CellCount * Len(h)}))
               => OperatorReturned
        /\ ip.prop.t = "scalar" =>
               IF ip.invProp /\ ip.prop.a[1] = ZeroRat
               THEN ret.kind = "error" /\ ret.val = "ZeroDivisionError"
               ELSE OperatorReturned

\* C10 witness: on a mesh of several cells an edge assembly with both
\* inversions returned an operator for an array property of one element.
C10_Witness ==
    /\ AssemblyDone
    /\ CellCount > 1
    /\ Len(h) = 2
    /\ ip.AvType = "E"
    /\ ip.invProp
    /\ ip.invMat
    /\ ip.prop.t = "array"
    /\ Len(ip.prop.a) = 1
    /\ OperatorReturned

\* The mesh has n cells of one unit width on each axis.
IsUniform(n) == \A a \in 1..Len(h) : h[a] = Array([k \in 1..n |-> Scale])

\* The volume of one cell of a uniform mesh.
UnitVolume == Pow(Scale, Len(h))

\* The component type and the grid point of degree of freedom q of the
\* family of T (faces for "Fx", edges for "Ex").
DofBlock(T, q) ==
    CHOOSE b \in 1..Len(Family(T)) :
        BlockOffset(Family(T)[b]) < q /\ q <= BlockOffset(Family(T)[b]) + DofCount(Family(T)[b])
DofType(T, q) == Family(T)[DofBlock(T, q)]
DofPoint(T, q) ==
    IF Len(h) = 1 THEN <<ndgrid(getTensor(Mesh, DofType(T, q)))[q - BlockOffset(DofType(T, q))]>>
    ELSE ndgrid(getTensor(Mesh, DofType(T, q)))[q - BlockOffset(DofType(T, q))]

\* The number of axes on which the face or edge q lies on the boundary of
\* the node vector; each halves the number of cells that touch it.
BoundaryAxes(T, q) ==
    Cardinality({a \in 1..Len(h) :
        /\ SelectorTable[DofType(T, q)][a] = "node"
        /\ DofPoint(T, q)[a] \in {Least(SelectedCoords("N", a)), Greatest(SelectedCoords("N", a))}})

FamilyOf(av) == IF av = "F" THEN "Fx" ELSE "Ex"
NoPropertyDone ==
    /\ AssemblyDone
    /\ ip.prop.t = "None"
    /\ ~ip.invMat
    /\ IsUniform(3)

\* C11 as stated: with no property, on the uniform mesh of three unit cells
\* per axis, every diagonal entry of the operator equals the cell volume
\* multiplied by the dimension d.
C11_AsStated ==
    NoPropertyDone =>
        /\ OperatorReturned
        /\ \A q \in 1..Len(ret.val[1]) : ret.val[1][q] = Rat(UnitVolume * Len(h), 1)

\* C11 amended: with no property, on that mesh, the diagonal entry of a
\* face or edge equals the cell volume divided by 2 for each axis on which
\* it lies on the boundary of the mesh (the cell volume itself in the
\* interior), and the entries sum to d times the volume of the mesh.
C11_VolumeShare ==
    NoPropertyDone =>
        /\ OperatorReturned
        /\ \A q \in 1..Len(ret.val[1]) :
              ret.val[1][q] = Rat(UnitVolume, Pow(2, BoundaryAxes(FamilyOf(ip.AvType), q)))
        /\ RSum(ret.val[1]) = Rat(Len(h) * CellCount * UnitVolume, 1)

\* C11 witness: the face operator of the 3 x 3 x 3 mesh, whose first entry
\* (a boundary face) is half the cell volume and whose second (an interior
\* face) is the cell volume.
C11_Witness ==
    /\ NoPropertyDone
    /\ Len(h) = 3
    /\ ip.AvType = "F"
    /\ Len(ret.val[1]) = 108
    /\ ret.val[1][1] = Rat(UnitVolume, 2)
    /\ ret.val[1][2] = Rat(UnitVolume, 1)

\* The three layouts of a property that equals s everywhere: the scalar,
\* one value per cell, one value per cell and axis.
AsScalar(s) == ScalarProp(s)
PerCell(s) == ArrayProp(Array([c \in 1..CellCount |-> s]))
PerCellAndAxis(s) == ArrayProp(Array([c \in 1..(CellCount * Len(h)) |-> s]))
Layouts(s) == {AsScalar(s), PerCell(s), PerCellAndAxis(s)}

\* What the last call returned is what the assembly of property p, with the
\* other arguments as they were, returns.
Outcome(r) ==
    IF r.kind = "error" THEN Error("fastInnerProduct", r.err)
    ELSE IF r.kind = "none" THEN Value("fastInnerProduct", None)
    ELSE Value("fastInnerProduct", Some(r.val))
SameAsWith(p) == ret = Outcome(fastInnerProduct(Mesh, ip.AvType, p, ip.invProp, ip.invMat))

UniformProperty == AssemblyDone /\ ip.prop.t # "None" /\ ip.prop \in Layouts(ip.prop.a[1])

\* C12 as stated: for every scalar s, with and without invertProperty, the
\* property of size nC*d with all entries s, the property of size nC with
\* all entries s and the scalar s give the same operator.
C12_AsStated ==
    UniformProperty => \A p \in Layouts(ip.prop.a[1]) : OperatorReturned /\ SameAsWith(p)

\* C12 amended: the three layouts give the same operator for every scalar s
\* without invertProperty, and for every s other than zero with
\* invertProperty.
C12_LayoutsAgree ==
    (UniformProperty /\ ~(ip.invProp /\ ip.prop.a[1] = ZeroRat))
        => \A p \in Layouts(ip.prop.a[1]) : OperatorReturned /\ SameAsWith(p)

\* C12 witness: on a 2-D mesh the property of size nC*d with all entries 2,
\* inverted, gave an operator, the one the scalar 2 gives.
C12_Witness ==
    /\ UniformProperty
    /\ Len(h) = 2
    /\ ip.invProp
    /\ ip.prop = PerCellAndAxis(Rat(2, 1))
    /\ ip.prop # PerCell(Rat(2, 1))
    /\ OperatorReturned
    /\ SameAsWith(AsScalar(Rat(2, 1)))

\* The diagonal the same call returns when invertResult is False.
Uninverted == fastInnerProduct(Mesh, ip.AvType, ip.prop, ip.invProp, FALSE).val

\* y is the reciprocal of x: x * y = 1, the reciprocal of 0 being inf
\* (held as <<1, 0>>).
IsReciprocal(y, x) == IF x[1] = 0 THEN y = <<1, 0>> ELSE y[2] # 0 /\ y[1] * x[1] = y[2] * x[2]

InvertedDone == AssemblyDone /\ ip.invMat /\ ret.kind = "value" /\ ret.val # None

\* C13: for every layout that gives an operator, the operator returned with
\* invertResult=True is a diagonal of as many entries as the one returned
\* with invertResult=False, each entry the reciprocal of the corresponding
\* entry, and inverting it once more gives the uninverted operator back.
C13_InverseIsReciprocal ==
    InvertedDone =>
        /\ Len(ret.val[1]) = Len(Uninverted)
        /\ \A q \in 1..Len(Uninverted) : IsReciprocal(ret.val[1][q], Uninverted[q])
        /\ Array([q \in 1..Len(ret.val[1]) |-> <<ret.val[1][q][2], ret.val[1][q][1]>>]) = Uninverted

\* C13 witness: an inverted operator of a 2-D mesh for a property that
\* differs from cell to cell, with entries that differ from their
\* reciprocals and from each other.
C13_Witness ==
    /\ InvertedDone
    /\ Len(h) = 2
    /\ ip.prop = ArrayProp(MixedArray(CellCount))
    /\ \E q \in 1..Len(ret.val[1]) : ret.val[1][q] # Uninverted[q]
    /\ \E q, r \in 1..Len(ret.val[1]) : ret.val[1][q] # ret.val[1][r]

\* Width of cell number i (from 0) on axis a; 1 on an axis the mesh lacks.
WidthAt(a, i) == IF a <= Len(h) THEN h[a][i + 1] ELSE 1
CellsOn(a) == IF a <= Len(h) THEN Len(h[a]) ELSE 1
\* Flat position (from 1) of cell (i, j, k), axis 0 varying fastest.
FlatIndex(i, j, k) == 1 + i + CellsOn(1) * j + CellsOn(1) * CellsOn(2) * k
\* Centre of cell number i (from 0) on axis a.
CentreAt(a, i) == x0[a] + Sum(SubSeq(h[a], 1, i)) + (h[a][i + 1] \div 2)
CellIndex(i, j, k) == <<i, j, k>>
CentreGrid == ndgrid(getTensor(Mesh, "CC"))
CentreRow(p) == IF Len(h) = 1 THEN <<CentreGrid[p]>> ELSE CentreGrid[p]

VolDone == status = "ok" /\ ret.op = "vol"

\* C14: vol has exactly nC entries; the entry at flat position
\* i + nCx*j + nCx*nCy*k is hx[i]*hy[j]*hz[k], axis 0 varying fastest, the
\* row of the cell-centre grid at that position being the centre of cell
\* (i, j, k); and the entries sum to the product over the axes of sum(h_i).
C14_VolumeLayout ==
    VolDone =>
        /\ Len(ret.val) = CellCount
        /\ \A i \in 0..(CellsOn(1) - 1), j \in 0..(CellsOn(2) - 1), k \in 0..(CellsOn(3) - 1) :
              /\ ret.val[FlatIndex(i, j, k)] = WidthAt(1, i) * WidthAt(2, j) * WidthAt(3, k)
              /\ \A a \in 1..Len(h) :
                    CentreRow(FlatIndex(i, j, k))[a] = CentreAt(a, CellIndex(i, j, k)[a])
        /\ Sum(ret.val) = Prod(Array([a \in 1..Len(h) |-> Sum(h[a])]))

\* C14 witness: vol of the mesh h = [[1, 1], [2, 2]] was read; it has four
\* entries that sum to 8 (in units of Scale per axis).
C14_Witness ==
    /\ VolDone
    /\ h_in = HIn(<<ArraySpec(<<1, 1>>), ArraySpec(<<2, 2>>)>>)
    /\ Len(ret.val) = 4
    /\ Sum(ret.val) = 8 * Scale * Scale

\* The matrix A applied to the vector x.
RowTimes(row, x, n) == RSum(Array([c \in 1..n |-> RMul(row[c], x[c])]))
Applied(A, x) == Array([r \in 1..A.nrows |-> RowTimes(A.rows[r], x, A.ncols)])

DerivDone == status = "ok" /\ ret.op = "fastInnerProductDeriv"
SupportedLayout ==
    \/ ip.prop.t = "scalar"
    \/ ip.prop.t = "array" /\ Len(ip.prop.a) \in {CellCount, CellCount * Len(h)}

\* The diagonal of the forward operator, neither the property nor the
\* result inverted.
Forward == fastInnerProduct(Mesh, ip.AvType, ip.prop, FALSE, FALSE).val
ForwardOn(v) == Array([q \in 1..Len(Forward) |-> RMul(Forward[q], v[q])])

IsWholeArray(key, x) ==
    /\ x = derivedValue(Mesh, key)
    /\ IF key \in LocTypes THEN IsProductGrid(x, key)
       ELSE IF key = "vol" THEN Len(x) = CellCount
       ELSE IF key = "area" THEN Len(x) = FamilyCount("Fx")
       ELSE Len(x) = FamilyCount("Ex")

CacheKeys == LocTypes \cup {"vol", "area", "edge"}

\* C16: under every interleaving of two threads reading cached quantities
\* of one mesh, each cache field is at every moment either not yet computed
\* or the complete array a single thread would compute, and every read that
\* has returned has returned that complete array.
C16_CachesWholeOrAbsent ==
    status = "ok" =>
        /\ \A key \in CacheKeys : Cached(key) = None \/ IsWholeArray(key, Cached(key)[1])
        /\ \A t \in Threads :
              thread[t].pc = "done" =>
                  thread[t].got # None /\ IsWholeArray(thread[t].key, thread[t].got[1])

\* C16 witness: both threads read the cell-centre grid of a 2-D mesh for the
\* first time, both found the field empty and built the grid, and both have
\* returned.
C16_Witness ==
    /\ status = "ok"
    /\ Len(h) = 2
    /\ \A t \in Threads : thread[t].pc = "done" /\ thread[t].key = "CC"
    /\ ndgridCalls["CC"] = 2
====
